---- MODULE Spec2Model ----
(***************************************************************************)
(* screen-stream: the packet framing protocol, the frame reassembly cache  *)
(* (frame_buffer.rs) and the sender fan-out loop (server.rs).              *)
(*                                                                         *)
(* A payload is never inspected by the program beyond its length and is    *)
(* only ever copied, so a payload is modelled as a block                   *)
(*   [src, off, len]  = bytes off .. off+len-1 of the byte source src,     *)
(* and a byte buffer as the sequence of the blocks it was built from.      *)
(***************************************************************************)
EXTENDS Integers, Sequences, FiniteSets, TLC

\* ------------------------------------------------------------ constants
META_SIZE == 5

CHUNK_SIZE == 65000

MAX_FRAMES == 3

\* let mut buffer = [0u8; 65000 * 1]
BUF_SIZE == 65000

\* ------------------------------------------------------------ bounds
\* frame ids offered to add_packet are 1..NumFrameIds
NumFrameIds == 4

\* packet indices offered to add_packet are 0..MaxIndex
MaxIndex == 2

\* add_packet calls made on one cache: enough to fill it, and after an
\* extraction to create two more frames
MaxAdds == MAX_FRAMES + 2

\* peer addresses are 1..NumAddrs
NumAddrs == 2

\* entries the model lets the registry grow to
MaxClients == 3

\* control bytes read are 0..MaxByte
MaxByte == 5

\* a failing send_to fails at fragment 0..MaxFailAt of its client
MaxFailAt == 1

\* socket.recv calls that return in one run of the client
MaxRecvs == 3

\* frames the sender sends in one run of the stream
MaxSent == 4

\* add_packet calls of one run of the stream: enough to fill the cache after
\* two extractions and to create one frame more
MaxStreamAdds == MAX_FRAMES + 3

FrameIds == 1 .. NumFrameIds

Indices == 0 .. MaxIndex

\* a full-size payload, as the sender cuts it
FullLen == CHUNK_SIZE - META_SIZE

Block(s, o, l) == [src |-> s, off |-> o, len |-> l]

\* payloads offered to add_packet for index i: the full chunk a sender cuts at
\* that position of its buffer, or a short one
Payloads(i) == {Block(1, i * FullLen, FullLen), Block(1, i * FullLen, 37)}

Addrs == 1 .. NumAddrs

ControlBytes == 0 .. MaxByte

\* lengths of the compressed buffer: empty, one short chunk, exact multiples of
\* a full chunk, full chunks and a short one, and one byte more than 256 chunks
BufLens == {0, 37, FullLen, FullLen + 37, 2 * FullLen, 256 * FullLen + 1}

\* the frame id the clock gives a sweep
SweepIds == {1}

VARIABLES
    clients,    \* Capture.clients : Vec<SocketAddr>
    control,    \* what recv_from gave the last call: <<buffer[0], address>> or "Err"
    swept,      \* the registry the last sweep went over (<<>>: no sweep)
    bytesLen,   \* bytes.len() of the frame of the last sweep
    frameId,    \* frame_id of the last sweep
    sentCount,  \* per entry of swept: the send_to calls that returned Ok
    clients_to_remove, \* clients_to_remove of the last sweep
    frames,     \* FrameBuffer.frames : frame_id -> Vec<Packet>
    order,      \* FrameBuffer.order  : Vec<u32>
    result,     \* what the last call returned
    op,         \* the last call: "new", "add_packet", "get_frame"
    how,        \* history: what the last add_packet did with its packet:
                \* "appended", "inserted" (before a stored packet), "same" (an
                \* identical packet was stored), "differs" (a packet with the same
                \* frame_id and index and another payload was stored); else "none"
    panicked,   \* an unwrap() or an index out of range aborted the call
    adds,       \* add_packet calls made so far
    seen,       \* history: the frame ids 1..seen have been given to add_packet
    run,        \* history: ids created since the cache was last empty
    runValid,   \* history: since then only add_packet calls, all ids distinct
    passed,     \* history: the stored frames that were created before a frame
                \* that get_frame has returned
    sent,       \* history: bytes.len() of the frames sent so far; frame k has id k
    packet,     \* <<p>>: the Packet given to to_bytes; <<>>: the bytes came off the wire
    bytes,      \* a Vec<u8>: the encoding made, or the buffer handed to from_bytes
    decoded,    \* what from_bytes(bytes) did: NotCalled, Decoded(p) or Panic
    pc,         \* recv_data: "send", "recv" (in socket.recv), "lock" (in
                \* frames_mutex.lock), "add", "insert" (in add_packet, before and
                \* after create_frame), "dead" (the thread panicked)
    upc,        \* update: "idle", or "locked" (it holds the guard)
    mutex,      \* frames_mutex: "free", its holder "recv_data" or "update", or
                \* "poisoned" (its holder panicked)
    exit,       \* the exit status of the process; -1 while it runs
    last,       \* history: what the last socket.recv returned
    recvs,      \* socket.recv calls that returned
    silent,     \* the sender has stopped sending, without closing
    serial      \* history: the cache made by the completed add_packet and
                \* get_frame calls, applied whole in the order they completed

fbVars == <<frames, order, result, op, how, panicked, adds, seen, run, runValid,
           passed>>

codVars == <<packet, bytes, decoded>>

cliVars == <<pc, upc, mutex, exit, last, recvs, silent, serial>>

srvVars == <<clients, control, swept, bytesLen, frameId, sentCount,
            clients_to_remove, sent>>

vars == <<frames, order, result, op, how, panicked, adds, seen, run, runValid,
          passed, sent,
          clients, control, swept, bytesLen, frameId, sentCount,
          clients_to_remove, packet, bytes, decoded,
          pc, upc, mutex, exit, last, recvs, silent, serial>>

\* ------------------------------------------------------------ Packet
Packet(i, f, d) == [index |-> i, frame_id |-> f, data |-> d]

\* a derived PartialEq, which compares the payload too
PacketEq_Derived(p, q) == p = q

\* impl PartialEq for Packet
PacketEq(p, q) == p.index = q.index /\ p.frame_id = q.frame_id

\* ------------------------------------------------------------ FrameBuffer
NoResult == [kind |-> "None", packets |-> <<>>, buffer |-> <<>>]

NoFrame == [kind |-> "NoFrame", packets |-> <<>>, buffer |-> <<>>]

NonSequential(ps) == [kind |-> "NonSequential", packets |-> ps, buffer |-> <<>>]

Ok(buf) == [kind |-> "Ok", packets |-> <<>>, buffer |-> buf]

\* HashMap::len
len(fr) == Cardinality(DOMAIN fr)

\* HashMap::remove: removing an absent key changes nothing
MapRemove(fr, k) == [f \in (DOMAIN fr) \ {k} |-> fr[f]]

\* HashMap::insert: an existing key is overwritten
MapInsert(fr, k, v) == [f \in (DOMAIN fr) \cup {k} |-> IF f = k THEN v ELSE fr[f]]

\* Vec::contains, by PartialEq
Contains(frame, p) == \E i \in 1 .. Len(frame) : PacketEq(frame[i], p)

\* Vec::push in place of the search
Position_Push(frame, p) == Len(frame)

\* iter().position(|p| p.index > packet.index).unwrap_or(frame.len()), 0-based
Position(frame, p) ==
    LET later == {i \in 1 .. Len(frame) : frame[i].index > p.index}
    IN  IF later = {} THEN Len(frame)
        ELSE (CHOOSE i \in later : \A j \in later : i <= j) - 1

\* Vec::insert(index, element), index 0-based
VecInsert(s, i, x) == SubSeq(s, 1, i) \o <<x>> \o SubSeq(s, i + 1, Len(s))

\* FrameBuffer::add_packet_to_frame, on the frame of the packet
add_packet_to_frame(frame, p) ==
    IF ~Contains(frame, p) THEN VecInsert(frame, Position(frame, p), p) ELSE frame

\* the frame inserted and its id pushed before the oldest entry is removed
create_frame_InsertFirst(fr, ord, frame_id) ==
    LET evict == len(fr) >= MAX_FRAMES
        fr0   == MapInsert(fr, frame_id, <<>>)
        ord0  == Append(ord, frame_id)
    IN  [frames |-> IF evict THEN MapRemove(fr0, ord0[1]) ELSE fr0,
         order  |-> IF evict THEN Tail(ord0) ELSE ord0]

\* FrameBuffer::create_frame: the cache after creating frame_id
create_frame(fr, ord, frame_id) ==
    LET evict  == len(fr) >= MAX_FRAMES
        fr1    == IF evict THEN MapRemove(fr, ord[1]) ELSE fr
        ord1   == IF evict THEN Tail(ord) ELSE ord
    IN  [frames |-> MapInsert(fr1, frame_id, <<>>), order |-> Append(ord1, frame_id)]

\* order.remove(0) panics on an empty Vec
create_frame_panics(fr, ord) == len(fr) >= MAX_FRAMES /\ ord = <<>>

\* self.frames.get_mut(&packet.frame_id).unwrap() in add_packet_to_frame
\* panics when the frame is not there after create_frame
get_mut_panics(fr, ord, p) ==
    /\ p.frame_id \notin DOMAIN fr
    /\ ~create_frame_panics(fr, ord)
    /\ p.frame_id \notin DOMAIN create_frame(fr, ord, p.frame_id).frames

\* the cache after FrameBuffer::add_packet
AfterAdd(fr, ord, p) ==
    LET c == IF p.frame_id \notin DOMAIN fr
             THEN create_frame(fr, ord, p.frame_id)
             ELSE [frames |-> fr, order |-> ord]
    IN  [frames |-> [c.frames EXCEPT ![p.frame_id] = add_packet_to_frame(@, p)],
         order  |-> c.order]

\* the place of a stored frame in insertion order: its creation pushed its id
\* at the end of `order`, and an entry leaves `order` only in create_frame,
\* which removes the frame of that id with it
Born(ord, f) == CHOOSE i \in 1 .. Len(ord) : ord[i] = f /\ \A j \in i + 1 .. Len(ord) : ord[j] # f

\* what add_packet does with p on the frame it goes to (<<>> for a new frame)
How(frame, p) ==
    IF \E i \in 1 .. Len(frame) : frame[i] = p THEN "same"
    ELSE IF \E i \in 1 .. Len(frame) :
               frame[i].index = p.index /\ frame[i].frame_id = p.frame_id
         THEN "differs"
    ELSE IF \E i \in 1 .. Len(frame) : frame[i].index > p.index THEN "inserted"
    ELSE "appended"

\* FrameBuffer::add_packet
add_packet(p) ==
    /\ ~panicked
    /\ adds' = adds + 1
    /\ seen' = IF p.frame_id > seen THEN p.frame_id ELSE seen
    /\ op' = "add_packet"
    /\ result' = NoResult
    /\ UNCHANGED <<srvVars, codVars, cliVars>>
    /\ IF \/ p.frame_id \notin DOMAIN frames /\ create_frame_panics(frames, order)
          \/ get_mut_panics(frames, order, p)
       THEN /\ panicked' = TRUE
            /\ how' = "none"
            /\ UNCHANGED <<frames, order, run, runValid, passed>>
       ELSE /\ frames' = AfterAdd(frames, order, p).frames
            /\ how' = How(IF p.frame_id \in DOMAIN frames
                          THEN frames[p.frame_id] ELSE <<>>, p)
            /\ order' = AfterAdd(frames, order, p).order
            /\ passed' = (passed \cap DOMAIN frames')
                            \ (IF p.frame_id \in DOMAIN frames THEN {} ELSE {p.frame_id})
            /\ UNCHANGED panicked
            /\ IF p.frame_id \in DOMAIN frames \/ ~runValid
               THEN UNCHANGED <<run, runValid>>
               ELSE IF \E i \in 1 .. Len(run) : run[i] = p.frame_id
                    THEN run' = <<>> /\ runValid' = FALSE
                    ELSE run' = Append(run, p.frame_id) /\ UNCHANGED runValid

\* the loop of FrameBuffer::get_frame from position i (0-based): the position of
\* the first frame the code takes for complete, or how the call ends instead
RECURSIVE Scan(_, _, _)
Scan(fr, ord, i) ==
    IF i >= Len(ord) THEN [end |-> "panic", pos |-> i]
    ELSE IF ord[i + 1] \notin DOMAIN fr THEN [end |-> "NoFrame", pos |-> i]
    ELSE IF fr[ord[i + 1]] = <<>> THEN [end |-> "panic", pos |-> i]
    ELSE IF fr[ord[i + 1]][Len(fr[ord[i + 1]])].data.len < CHUNK_SIZE
         THEN [end |-> "break", pos |-> i]
    ELSE IF i + 1 >= MAX_FRAMES THEN [end |-> "NoFrame", pos |-> i]
    ELSE Scan(fr, ord, i + 1)

\* packets.iter().enumerate().any(|(i, packet)| packet.index as usize != i)
NotSequential(packets) == \E i \in 1 .. Len(packets) : packets[i].index # i - 1

\* the buffer built by extend_from_slice over the packets in stored order
BuildBuffer(packets) == [i \in 1 .. Len(packets) |-> packets[i].data]

\* the value FrameBuffer::get_frame returns on the cache (fr, ord)
GetFrameResult(fr, ord) ==
    IF len(fr) = 0 THEN NoFrame
    ELSE LET s == Scan(fr, ord, 0)
         IN  IF s.end = "NoFrame" THEN NoFrame
             ELSE IF s.end = "panic" THEN NoResult
             ELSE IF NotSequential(fr[ord[s.pos + 1]])
                  THEN NonSequential(fr[ord[s.pos + 1]])
             ELSE Ok(BuildBuffer(fr[ord[s.pos + 1]]))

\* the frames FrameBuffer::get_frame leaves in the cache (fr, ord)
GetFrameFrames(fr, ord) ==
    IF GetFrameResult(fr, ord).kind = "Ok"
    THEN MapRemove(fr, ord[Scan(fr, ord, 0).pos + 1])
    ELSE fr

\* FrameBuffer::get_frame
get_frame ==
    /\ ~panicked
    /\ op' = "get_frame"
    /\ how' = "none"
    /\ result' = GetFrameResult(frames, order)
    /\ panicked' = (len(frames) # 0 /\ Scan(frames, order, 0).end = "panic")
    /\ frames' = GetFrameFrames(frames, order)
    /\ passed' = IF result'.kind = "Ok"
                 THEN LET r == order[Scan(frames, order, 0).pos + 1]
                      IN  (passed \ {r})
                          \cup {g \in DOMAIN frames' : Born(order, g) < Born(order, r)}
                 ELSE passed
    /\ UNCHANGED <<order, adds, seen>>
    /\ UNCHANGED <<srvVars, codVars, cliVars>>
    /\ run' = <<>>
    /\ runValid' = (len(frames') = 0)

\* ------------------------------------------------------------ server
\* Vec::retain(|&x| x != a)
Retain(cs, a) == SelectSeq(cs, LAMBDA x : x # a)

\* the registry after the control datagram: ctl is "Err" (recv_from failed) or
\* <<byte, address>>
HandleControl(cs, ctl) ==
    IF ctl = "Err" THEN cs
    ELSE IF ctl[1] = 1 THEN Append(cs, ctl[2])
    ELSE IF ctl[1] = 2 THEN Retain(cs, ctl[2])
    ELSE cs

\* bytes.chunks(chunk_size - META_SIZE).count()
NumChunks(n) == (n + FullLen - 1) \div FullLen

\* length of chunk i (0-based) of a buffer of n bytes
ChunkLen(n, i) == IF (i + 1) * FullLen <= n THEN FullLen ELSE n - i * FullLen

\* the packet built for chunk i: index is `i as u8`
Fragment(n, fid, i) == Packet(i % 256, fid, Block(fid, i * FullLen, ChunkLen(n, i)))

\* the send_to calls that return Ok for a client whose send fails at fragment
\* f (-1: none fails); the inner loop breaks at the first Err
SentTo(n, f) == IF f >= 0 /\ f < NumChunks(n) THEN f ELSE NumChunks(n)

\* for client in clients_to_remove { clients.retain(|&x| x != client) }
RECURSIVE RemoveAll(_, _)
RemoveAll(cs, rm) == IF rm = <<>> THEN cs ELSE RemoveAll(Retain(cs, Head(rm)), Tail(rm))

\* the entries of cs whose send failed, in sweep order
RECURSIVE Failed(_, _, _)
Failed(cs, n, fails) ==
    IF cs = <<>> THEN <<>>
    ELSE (IF SentTo(n, Head(fails)) < NumChunks(n) THEN <<Head(cs)>> ELSE <<>>)
         \o Failed(Tail(cs), n, Tail(fails))

\* Capture::on_frame_arrived
on_frame_arrived(ctl, n, fid, fails) ==
    /\ Len(HandleControl(clients, ctl)) <= MaxClients
    /\ control' = ctl
    /\ UNCHANGED sent
    /\ IF Len(HandleControl(clients, ctl)) = 0
       THEN /\ clients' = HandleControl(clients, ctl)
            /\ swept' = <<>>
            /\ bytesLen' = 0
            /\ frameId' = 0
            /\ sentCount' = <<>>
            /\ clients_to_remove' = <<>>
       ELSE LET cs == HandleControl(clients, ctl)
            IN  /\ swept' = cs
                /\ bytesLen' = n
                /\ frameId' = fid
                /\ sentCount' = [k \in 1 .. Len(cs) |-> SentTo(n, fails[k])]
                /\ clients_to_remove' = Failed(cs, n, fails)
                /\ clients' = RemoveAll(cs, Failed(cs, n, fails))
    /\ UNCHANGED <<fbVars, codVars, cliVars>>

\* ------------------------------------------------------------ the codec
\* A Vec<u8> on the wire: the first bytes one by one (`meta`, at most
\* META_SIZE of them) and what follows them as a block (`data`, empty unless
\* all META_SIZE leading bytes are there).
Bytes(m, d) == [meta |-> m, data |-> d]

NoBytes == Bytes(<<>>, Block(0, 0, 0))

BytesLen(b) == Len(b.meta) + b.data.len

\* u32::to_le_bytes
to_le_bytes(x) ==
    <<x % 256, (x \div 256) % 256, (x \div 65536) % 256, (x \div 16777216) % 256>>

\* reading the two low bytes in the other order
from_le_bytes_Swapped(b) == 256 * b[1] + b[2] + 65536 * b[3] + 16777216 * b[4]

\* u32::from_le_bytes
from_le_bytes(b) == b[1] + 256 * b[2] + 65536 * b[3] + 16777216 * b[4]

\* Packet::to_bytes
to_bytes(p) == Bytes(<<p.index>> \o to_le_bytes(p.frame_id), p.data)

\* the outcomes of a call of from_bytes: it returns Self, or an index out of
\* range aborts the calling thread
NotCalled == [kind |-> "none", packets |-> <<>>]

Decoded(p) == [kind |-> "Packet", packets |-> <<p>>]

Panic == [kind |-> "panic", packets |-> <<>>]

\* Packet::from_bytes: bytes[0] .. bytes[4] and bytes[5..] are indexed without
\* a length test
from_bytes(b) ==
    IF Len(b.meta) < 5 THEN Panic
    ELSE Decoded(Packet(b.meta[1], from_le_bytes(SubSeq(b.meta, 2, 5)), b.data))

\* ------------------------------------------------------------ client
\* run() leaves the socket as bind() made it: the call of set_nonblocking(true)
\* is commented out and no read timeout is set
set_nonblocking == FALSE

\* what socket.recv returns
NoRecv == [kind |-> "none", bytes |-> NoBytes, err |-> "none"]

RecvOk(b) == [kind |-> "Ok", bytes |-> b, err |-> "none"]

RecvErr(e) == [kind |-> "Err", bytes |-> NoBytes, err |-> e]

\* the first BUF_SIZE bytes of a longer datagram
Truncate(d) == Bytes(d.meta, Block(d.data.src, d.data.off, BUF_SIZE - Len(d.meta)))

\* socket.recv(&mut buffer) on datagram d: a datagram longer than the buffer
\* is cut to it or refused with an error, as the platform has it
recv(d) ==
    IF BytesLen(d) <= BUF_SIZE THEN {RecvOk(d)}
    ELSE {RecvOk(Truncate(d)), RecvErr("Other")}

\* no read is taken for too short
TooShort_Never(bytes_read) == FALSE

\* else if bytes_read < Packet::META_SIZE
TooShort(bytes_read) == bytes_read < META_SIZE

\* the arms with every error but ConnectionReset skipped
Arm_Swallow(r) ==
    IF r.kind = "Ok"
    THEN IF BytesLen(r.bytes) = 0 THEN "exit0"
         ELSE IF TooShort(BytesLen(r.bytes)) THEN "continue"
         ELSE "lock"
    ELSE IF r.err = "ConnectionReset" THEN "exit0"
    ELSE "continue"

\* the arms of `match socket.recv(&mut buffer)`: what the loop does next
Arm(r) ==
    IF r.kind = "Ok"
    THEN IF BytesLen(r.bytes) = 0 THEN "exit0"
         ELSE IF TooShort(BytesLen(r.bytes)) THEN "continue"
         ELSE "lock"
    ELSE IF r.err = "WouldBlock" THEN "continue"
    ELSE IF r.err = "ConnectionReset" THEN "exit0"
    ELSE "exit1"

\* the byte counts from_bytes is called on for a read of n bytes: the whole
\* read when n <= CHUNK_SIZE, else the slices buffer[index..end] of the loop
RECURSIVE SplitLens(_, _)
SplitLens(n, index) ==
    IF ~(index < n) \/ index + META_SIZE > n THEN <<>>
    ELSE LET end == IF index + CHUNK_SIZE < n THEN index + CHUNK_SIZE ELSE n
         IN  <<end - index>> \o (IF end = n THEN <<>> ELSE SplitLens(n, end))

Slices(n) == IF n <= CHUNK_SIZE THEN <<n>> ELSE SplitLens(n, 0)

\* a lock that is given to whoever asks
Lockable_Any(m) == TRUE

\* Mutex::lock returns when no thread holds the guard
Lockable(m) == m = "free"

\* a guard that is kept
Drop_Kept(m) == m

\* the guard goes out of scope (continue, return) or is dropped
Drop(m) == "free"

Init ==
    /\ clients = <<>>
    /\ control = "Err"
    /\ swept = <<>>
    /\ bytesLen = 0
    /\ frameId = 0
    /\ sentCount = <<>>
    /\ clients_to_remove = <<>>
    /\ frames = <<>>
    /\ order = <<>>
    /\ result = NoResult
    /\ op = "new"
    /\ how = "none"
    /\ panicked = FALSE
    /\ adds = 0
    /\ seen = 0
    /\ run = <<>>
    /\ runValid = TRUE
    /\ passed = {}
    /\ sent = <<>>
    /\ packet = <<>>
    /\ bytes = NoBytes
    /\ decoded = NotCalled
    /\ pc = "send"
    /\ upc = "idle"
    /\ mutex = "free"
    /\ exit = -1
    /\ last = NoRecv
    /\ recvs = 0
    /\ silent = FALSE
    /\ serial = [frames |-> <<>>, order |-> <<>>]

\* the frame ids a next packet may carry: one used before, or the next unused
\* one. The program only compares frame ids for equality (a HashMap key, an
\* element of `order`), so which unused id comes next makes no difference.
NextIds == {f \in FrameIds : f <= seen + 1}

Next ==
    \/ /\ adds < MaxAdds
       /\ \E f \in NextIds, i \in Indices : \E d \in Payloads(i) : add_packet(Packet(i, f, d))
    \/ get_frame

Spec == Init /\ [][Next]_vars

\* what the network hands to recv_from
Controls == {"Err"} \cup (ControlBytes \X Addrs)

\* the inputs of one call: the control datagram, the compressed frame, the
\* clock, and for each registered client the fragment its send fails at; no
\* frame is captured when the registry is empty
NextServer ==
    \E ctl \in Controls :
        \E n \in IF HandleControl(clients, ctl) = <<>> THEN {0} ELSE BufLens :
            \E fid \in SweepIds :
                \E fails \in [1 .. Len(HandleControl(clients, ctl)) -> -1 .. MaxFailAt] :
                    on_frame_arrived(ctl, n, fid, fails)

SpecServer == Init /\ [][NextServer]_vars

\* the packets given to to_bytes: the index over its whole width, the frame_id
\* up to 2^31 - 1, the largest integer TLC computes with
CodecIndices == {0, 1, 255}

CodecIds == {0, 1, 255, 256, 65536, 16909060, 2147483647}

CodecPayloads == {Block(1, 0, 0), Block(1, 0, 37), Block(1, 0, FullLen)}

\* buffers of fewer than META_SIZE bytes
ShortBytes == {Bytes(SubSeq(<<7, 1, 0, 0>>, 1, n), Block(0, 0, 0)) : n \in 0 .. META_SIZE - 1}

Encode(p) ==
    /\ packet' = <<p>>
    /\ bytes' = to_bytes(p)
    /\ decoded' = NotCalled
    /\ UNCHANGED <<fbVars, srvVars, cliVars>>

Arrive(b) ==
    /\ packet' = <<>>
    /\ bytes' = b
    /\ decoded' = NotCalled
    /\ UNCHANGED <<fbVars, srvVars, cliVars>>

Decode ==
    /\ decoded = NotCalled
    /\ decoded' = from_bytes(bytes)
    /\ UNCHANGED <<packet, bytes, fbVars, srvVars, cliVars>>

NextCodec ==
    \/ \E i \in CodecIndices, f \in CodecIds, d \in CodecPayloads : Encode(Packet(i, f, d))
    \/ \E b \in ShortBytes : Arrive(b)
    \/ Decode

SpecCodec == Init /\ [][NextCodec]_vars

\* ------------------------------------------------------------ the stream
\* lengths of the compressed frames of the stream: one short chunk, and a full
\* chunk with a short one
StreamLens == {37, FullLen + 37}

\* the sender compresses a frame of n bytes and sends its fragments; its clock
\* gives every frame a new id
send_frame(n) ==
    /\ Len(sent) < MaxSent
    /\ sent' = Append(sent, n)
    /\ UNCHANGED <<clients, control, swept, bytesLen, frameId, sentCount,
                   clients_to_remove>>
    /\ UNCHANGED <<fbVars, codVars, cliVars>>

\* fragment i of sent frame f as recv_data decodes it from its datagram
Delivered(f, i) == from_bytes(to_bytes(Fragment(sent[f], f, i))).packets[1]

\* the network may bring any fragment that was sent, at any time, any number
\* of times, or never; get_frame runs between any two add_packet calls
NextStream ==
    \/ \E n \in StreamLens : send_frame(n)
    \/ /\ adds < MaxStreamAdds
       /\ \E f \in 1 .. Len(sent) :
             \E i \in 0 .. NumChunks(sent[f]) - 1 : add_packet(Delivered(f, i))
    \/ get_frame

SpecStream == Init /\ [][NextStream]_vars

\* frame ids and indices of the packets the network brings the client
ClientIds == {1, 2}

ClientIndices == {0, 1}

\* the datagrams the network brings: empty and short ones, packets with a short
\* payload, a packet with a full payload, and one a byte longer than the buffer
Datagrams ==
    ShortBytes
    \cup {to_bytes(Packet(i, f, Block(f, i * FullLen, 37))) : i \in ClientIndices, f \in ClientIds}
    \cup {to_bytes(Packet(0, 1, Block(1, 0, FullLen))),
          to_bytes(Packet(0, 1, Block(1, 0, BUF_SIZE + 1 - META_SIZE)))}

\* what socket.recv can return: while the sender sends, a datagram read or an
\* error of the socket; WouldBlock only from a socket that was made
\* non-blocking; from a blocking socket with nothing to read, nothing
RecvResults ==
    (IF silent THEN {}
     ELSE UNION {recv(d) : d \in Datagrams}
          \cup {RecvErr("ConnectionReset"), RecvErr("Other")})
    \cup (IF set_nonblocking THEN {RecvErr("WouldBlock")} ELSE {})

\* frames.get_mut(&frame_id) and add_packet_to_frame on it
Insert(fr, p) == [fr EXCEPT ![p.frame_id] = add_packet_to_frame(@, p)]

\* recv_data: if socket.send(&[0u8; 1]).is_err() { exit(0) }
recv_data_send(ok) ==
    /\ exit = -1
    /\ pc = "send"
    /\ IF ok THEN pc' = "recv" /\ UNCHANGED exit
             ELSE exit' = 0 /\ UNCHANGED pc
    /\ UNCHANGED <<upc, mutex, last, recvs, silent, serial, fbVars, srvVars, codVars>>

\* recv_data: socket.recv returns r, and the loop goes to the arm of r
recv_data_recv(r) ==
    /\ exit = -1
    /\ pc = "recv"
    /\ recvs < MaxRecvs
    /\ recvs' = recvs + 1
    /\ last' = r
    /\ bytes' = IF r.kind = "Ok" THEN r.bytes ELSE bytes
    /\ decoded' = NotCalled
    /\ pc' = IF Arm(r) = "lock" THEN "lock" ELSE "recv"
    /\ exit' = IF Arm(r) = "exit0" THEN 0 ELSE IF Arm(r) = "exit1" THEN 1 ELSE -1
    /\ UNCHANGED <<upc, mutex, silent, serial, packet, fbVars, srvVars>>

\* recv_data: let mut frames = unsafe { frames_mutex.lock() }.unwrap()
recv_data_lock ==
    /\ exit = -1
    /\ pc = "lock"
    /\ IF mutex = "poisoned"
       THEN pc' = "dead" /\ UNCHANGED mutex
       ELSE Lockable(mutex) /\ mutex' = "recv_data" /\ pc' = "add"
    /\ UNCHANGED <<upc, exit, last, recvs, silent, serial, fbVars, srvVars, codVars>>

\* recv_data, a read of at most CHUNK_SIZE bytes (a BUF_SIZE buffer holds no
\* more): Packet::from_bytes, then add_packet up to the end of create_frame, or
\* to its own end when the frame is there
recv_data_add ==
    /\ exit = -1
    /\ pc = "add"
    /\ BytesLen(bytes) <= CHUNK_SIZE
    /\ decoded' = from_bytes(bytes)
    /\ IF decoded' = Panic
       THEN /\ pc' = "dead"
            /\ mutex' = "poisoned"
            /\ UNCHANGED <<frames, order, serial>>
       ELSE LET p == decoded'.packets[1]
            IN  IF p.frame_id \in DOMAIN frames
                THEN /\ frames' = Insert(frames, p)
                     /\ serial' = AfterAdd(serial.frames, serial.order, p)
                     /\ pc' = "recv"
                     /\ mutex' = Drop(mutex)
                     /\ UNCHANGED order
                ELSE IF create_frame_panics(frames, order)
                THEN /\ pc' = "dead"
                     /\ mutex' = "poisoned"
                     /\ UNCHANGED <<frames, order, serial>>
                ELSE /\ frames' = create_frame(frames, order, p.frame_id).frames
                     /\ order' = create_frame(frames, order, p.frame_id).order
                     /\ pc' = "insert"
                     /\ UNCHANGED <<mutex, serial>>
    /\ UNCHANGED <<upc, exit, last, recvs, silent, packet, bytes, srvVars>>
    /\ UNCHANGED <<result, op, how, panicked, adds, seen, run, runValid, passed>>

\* recv_data: the rest of add_packet on a frame just created, then `continue`
recv_data_insert ==
    /\ exit = -1
    /\ pc = "insert"
    /\ IF decoded.packets[1].frame_id \notin DOMAIN frames
       THEN /\ pc' = "dead"
            /\ mutex' = "poisoned"
            /\ UNCHANGED <<frames, serial>>
       ELSE /\ frames' = Insert(frames, decoded.packets[1])
            /\ serial' = AfterAdd(serial.frames, serial.order, decoded.packets[1])
            /\ pc' = "recv"
            /\ mutex' = Drop(mutex)
    /\ UNCHANGED <<upc, exit, last, recvs, silent, order, srvVars, codVars>>
    /\ UNCHANGED <<result, op, how, panicked, adds, seen, run, runValid, passed>>

\* update: let mut frames = unsafe { frames_mutex.lock() }.unwrap(); a panic of
\* the main thread ends the process with status 101
update_lock ==
    /\ exit = -1
    /\ upc = "idle"
    /\ IF mutex = "poisoned"
       THEN exit' = 101 /\ UNCHANGED <<upc, mutex>>
       ELSE Lockable(mutex) /\ mutex' = "update" /\ upc' = "locked" /\ UNCHANGED exit
    /\ UNCHANGED <<pc, last, recvs, silent, serial, fbVars, srvVars, codVars>>

\* update, from frames.len() to its return
update_get ==
    /\ exit = -1
    /\ upc = "locked"
    /\ upc' = "idle"
    /\ IF len(frames) = 0
       THEN /\ result' = NoResult
            /\ mutex' = Drop(mutex)
            /\ UNCHANGED <<frames, serial, exit>>
       ELSE IF Scan(frames, order, 0).end = "panic"
       THEN /\ result' = NoResult
            /\ exit' = 101
            /\ mutex' = "poisoned"
            /\ UNCHANGED <<frames, serial>>
       ELSE /\ result' = GetFrameResult(frames, order)
            /\ frames' = GetFrameFrames(frames, order)
            /\ serial' = [frames |-> GetFrameFrames(serial.frames, serial.order),
                          order  |-> serial.order]
            /\ mutex' = Drop(mutex)
            /\ UNCHANGED exit
    /\ UNCHANGED <<pc, last, recvs, silent, order, srvVars, codVars>>
    /\ UNCHANGED <<op, how, panicked, adds, seen, run, runValid, passed>>

\* the sender stops sending and does not close
ServerStops ==
    /\ exit = -1
    /\ ~silent
    /\ silent' = TRUE
    /\ UNCHANGED <<pc, upc, mutex, exit, last, recvs, serial, fbVars, srvVars, codVars>>

\* socket.recv returns
RecvReturns == \E r \in RecvResults : recv_data_recv(r)

NextClient ==
    \/ \E ok \in BOOLEAN : recv_data_send(ok)
    \/ RecvReturns
    \/ recv_data_lock
    \/ recv_data_add
    \/ recv_data_insert
    \/ update_lock
    \/ update_get
    \/ ServerStops

SpecClient == Init /\ [][NextClient]_vars

\* ------------------------------------------------------------ the claims' terms
\* the last packet of a frame
LastPacket(frame) == frame[Len(frame)]

\* section 3: a frame is complete iff its trailing packet is a short one
Complete(frame) == frame # <<>> /\ LastPacket(frame).data.len < CHUNK_SIZE - META_SIZE

Stored(fr, ord) == {f \in DOMAIN fr : \E i \in 1 .. Len(ord) : ord[i] = f}

CompleteStored(fr, ord) == {f \in Stored(fr, ord) : Complete(fr[f])}

\* the oldest complete stored frame, by insertion order
OldestComplete(fr, ord) ==
    CHOOSE f \in CompleteStored(fr, ord) :
        \A g \in CompleteStored(fr, ord) : Born(ord, f) <= Born(ord, g)

\* the oldest stored frame, by insertion order
Oldest(fr, ord) ==
    CHOOSE f \in Stored(fr, ord) : \A g \in Stored(fr, ord) : Born(ord, f) <= Born(ord, g)

\* the indices of a frame's packets are exactly 0, 1, .., n-1
Contiguous(frame) ==
    {frame[i].index : i \in 1 .. Len(frame)} = 0 .. Len(frame) - 1

\* every packet but the last is full-size and the last is short
WellFormed(frame) ==
    /\ Contiguous(frame)
    /\ \A i \in 1 .. Len(frame) :
          \A j \in 1 .. Len(frame) :
             frame[i].index < frame[j].index => frame[i].data.len = FullLen
    /\ \A i \in 1 .. Len(frame) :
          frame[i].index = Len(frame) - 1 => frame[i].data.len < FullLen

\* the payloads of a contiguous frame in ascending index order
ByIndex(frame) ==
    [k \in 1 .. Len(frame) |->
        (CHOOSE p \in {frame[i] : i \in 1 .. Len(frame)} : p.index = k - 1).data]

\* ------------------------------------------------------------ the claims
\* C1: the number of frames stored in the cache never exceeds MAX_FRAMES
C1_SizeBound == len(frames) <= MAX_FRAMES

\* C2: get_frame returns NoFrame only if no stored frame is complete, and when a
\* stored frame is complete its result is about the oldest complete one
C2_OldestComplete ==
    [][get_frame =>
        /\ (result'.kind = "NoFrame" => \A f \in DOMAIN frames : ~Complete(frames[f]))
        /\ (CompleteStored(frames, order) # {} =>
              \/ result' = NonSequential(frames[OldestComplete(frames, order)])
              \/ result' = Ok(BuildBuffer(frames[OldestComplete(frames, order)])))]_vars

\* C3: get_frame returns NoFrame on an empty cache and on a cache in which the
\* last packet of every stored frame is full-size
C3_NoFrame ==
    [][get_frame /\ (\A f \in DOMAIN frames :
                        frames[f] # <<>> /\ LastPacket(frames[f]).data.len = FullLen)
        => result'.kind = "NoFrame"]_vars

\* C4: when the oldest complete frame holds contiguous indices, all full-size but
\* a short last one, get_frame returns Ready with the payloads in ascending index
\* order and the frame leaves the cache
C4_Ready ==
    [][(/\ get_frame
        /\ CompleteStored(frames, order) # {}
        /\ WellFormed(frames[OldestComplete(frames, order)]))
        => /\ result' = Ok(ByIndex(frames[OldestComplete(frames, order)]))
           /\ OldestComplete(frames, order) \notin DOMAIN frames']_vars

\* C5: when the oldest complete frame has a gap in its indices, get_frame
\* returns NonSequential with that frame's packets and leaves the cache as it was
C5_Gap ==
    [][(/\ get_frame
        /\ CompleteStored(frames, order) # {}
        /\ ~Contiguous(frames[OldestComplete(frames, order)]))
        => /\ result' = NonSequential(frames[OldestComplete(frames, order)])
           /\ frames' = frames]_vars

\* C6: after add_packet calls for more than MAX_FRAMES distinct frame ids on an
\* empty cache, the cache holds exactly the MAX_FRAMES most recently created
\* frames
C6_Eviction ==
    (runValid /\ Len(run) > MAX_FRAMES) =>
        DOMAIN frames = {run[i] : i \in Len(run) - MAX_FRAMES + 1 .. Len(run)}

\* C7: in every stored frame the packets are sorted strictly ascending by index
C7_Sorted ==
    \A f \in DOMAIN frames :
        \A i \in 1 .. Len(frames[f]) :
            \A j \in 1 .. Len(frames[f]) :
                i < j => frames[f][i].index < frames[f][j].index

\* a packet was put before stored ones into a frame that now holds three
C7_Witness ==
    /\ how = "inserted"
    /\ \E f \in DOMAIN frames : Len(frames[f]) = 3
    /\ \E g \in DOMAIN frames : Len(frames[g]) = 2

\* C8: add_packet of a packet whose frame_id and index match a stored packet
\* leaves the stored packets as they were, whatever its payload
C8_Dedup ==
    [][(op' = "add_packet" /\ how' \in {"same", "differs"}) => frames' = frames]_vars

\* a packet with a stored frame_id and index and another payload was added
C8_Witness == how = "differs" /\ op = "add_packet"

\* the packets the last sweep sent to entry k of the registry, in send order
Emitted(k) == [i \in 1 .. sentCount[k] |-> Fragment(bytesLen, frameId, i - 1)]

\* the packets the last sweep sent to address a, in send order
RECURSIVE ReceivedFrom(_, _)
ReceivedFrom(a, k) ==
    IF k > Len(swept) THEN <<>>
    ELSE (IF swept[k] = a THEN Emitted(k) ELSE <<>>) \o ReceivedFrom(a, k + 1)

Received(a) == ReceivedFrom(a, 1)

\* the addresses with a failed send in the last sweep
FailedAddrs == {clients_to_remove[k] : k \in 1 .. Len(clients_to_remove)}

\* the addresses the last sweep went over
SweptAddrs == {swept[k] : k \in 1 .. Len(swept)}

\* C9: the fragments sent to a client end with a fragment shorter than
\* CHUNK_SIZE - META_SIZE, an empty one when the buffer length is a multiple of
\* CHUNK_SIZE - META_SIZE
C9_Terminator ==
    \A k \in 1 .. Len(swept) :
        swept[k] \notin FailedAddrs =>
            /\ Emitted(k) # <<>>
            /\ LastPacket(Emitted(k)).data.len < FullLen
            /\ (bytesLen % FullLen = 0 => LastPacket(Emitted(k)).data.len = 0)

\* C10: after a sweep every client without a failed send has received every
\* fragment of the frame, in ascending index order, and the registry holds
\* exactly the clients without a failed send
C10_Sweep ==
    swept # <<>> =>
        /\ \A a \in SweptAddrs \ FailedAddrs :
              /\ Len(Received(a)) = NumChunks(bytesLen)
              /\ \A i \in 1 .. Len(Received(a)) :
                    Received(a)[i].data =
                        Block(frameId, (i - 1) * FullLen, ChunkLen(bytesLen, i - 1))
              /\ \A i \in 1 .. Len(Received(a)) - 1 :
                    Received(a)[i].index < Received(a)[i + 1].index
        /\ clients = SelectSeq(swept, LAMBDA x : x \notin FailedAddrs)

\* C11: a frame of more than 256 fragments is not sent, and no two fragments
\* sent to a client for one frame carry the same index
C11_NoWrap ==
    \A k \in 1 .. Len(swept) :
        /\ (NumChunks(bytesLen) > 256 => sentCount[k] = 0)
        /\ \A i \in 1 .. sentCount[k] :
              \A j \in 1 .. sentCount[k] :
                 i # j => Emitted(k)[i].index # Emitted(k)[j].index

\* C12: a control datagram from address A with byte 2 leaves A registered when
\* the sweep starts, byte 3 leaves A unregistered, and any other byte leaves the
\* registry as it was before the call
C12_Control ==
    [][control' # "Err" =>
         /\ control'[1] = 2 => \E k \in 1 .. Len(swept') : swept'[k] = control'[2]
         /\ control'[1] = 3 => \A k \in 1 .. Len(swept') : swept'[k] # control'[2]
         /\ control'[1] \notin {2, 3} => swept' = clients]_vars

\* C13: the registry holds no address twice, and a sweep sends an address the
\* fragments of the frame at most once
C13_NoDup ==
    /\ \A i \in 1 .. Len(clients) :
          \A j \in 1 .. Len(clients) : i # j => clients[i] # clients[j]
    /\ \A a \in SweptAddrs : Len(Received(a)) <= NumChunks(bytesLen)

\* C19: decoding the encoding of a packet gives its index, frame_id and
\* payload back, and the encoding is the index byte, the frame_id in four
\* bytes least significant first, then the payload
C19_RoundTrip ==
    (packet # <<>> /\ decoded # NotCalled) =>
        /\ decoded.kind = "Packet"
        /\ decoded.packets[1].index = packet[1].index
        /\ decoded.packets[1].frame_id = packet[1].frame_id
        /\ decoded.packets[1].data = packet[1].data
        /\ Len(bytes.meta) = META_SIZE
        /\ bytes.meta[1] = packet[1].index
        /\ \A k \in 0 .. 3 : bytes.meta[2 + k] = (packet[1].frame_id \div (256 ^ k)) % 256
        /\ bytes.data = packet[1].data

C19_Witness ==
    /\ packet # <<>>
    /\ decoded.kind = "Packet"
    /\ packet[1].frame_id = 16909060
    /\ packet[1].index = 255
    /\ packet[1].data.len = FullLen

\* section 6 of the description: the error a decode of a short buffer returns
MalformedPacket == [kind |-> "MalformedPacket", packets |-> <<>>]

\* C20: decoding fewer than META_SIZE bytes returns MalformedPacket: no
\* Packet is made and the caller goes on
C20_Malformed ==
    (decoded # NotCalled /\ BytesLen(bytes) < META_SIZE) => decoded = MalformedPacket

\* C14: the cache is touched only by the holder of frames_mutex, and what
\* update sees when it holds the guard is the cache made by whole add_packet
\* and get_frame calls in the order they completed, with no frame left
\* without its packet
C14_Serial ==
    /\ pc \in {"add", "insert"} => mutex = "recv_data"
    /\ upc = "locked" =>
          /\ mutex = "update"
          /\ frames = serial.frames
          /\ order = serial.order
          /\ \A f \in DOMAIN frames : frames[f] # <<>>

C14_Witness ==
    /\ upc = "locked"
    /\ pc = "lock"
    /\ DOMAIN frames # {}
    /\ result.kind = "Ok"

\* C15: recv_data does not hold frames_mutex while it is in socket.recv
C15_Released == pc = "recv" => mutex # "recv_data"

C15_Witness ==
    /\ pc = "recv"
    /\ decoded.kind = "Packet"
    /\ Len(serial.order) = 2
    /\ mutex = "update"

\* C16: a socket.recv the loop is in can return, whatever the sender does
C16_Bounded == (exit = -1 /\ pc = "recv" /\ recvs < MaxRecvs) => ENABLED RecvReturns

\* C17: a read of zero bytes and ConnectionReset end the process with status
\* 0, any other error but WouldBlock ends it with status 1, nothing runs after
\* the exit, and WouldBlock leaves the cache as it is and the loop in recv
C17_Termination ==
    /\ [](/\ (last.kind = "Ok" /\ BytesLen(last.bytes) = 0) => exit = 0
          /\ last.err = "ConnectionReset" => exit = 0
          /\ (last.kind = "Err" /\ last.err \notin {"WouldBlock", "ConnectionReset"})
                => exit = 1
          /\ Arm(RecvErr("WouldBlock")) = "continue")
    /\ [][/\ exit # -1 => UNCHANGED vars
          /\ (recvs' # recvs /\ last'.err = "WouldBlock")
                => (frames' = frames /\ order' = order /\ pc' = "recv" /\ exit' = -1)]_vars

C17_Witness ==
    /\ exit = 1
    /\ last.err = "Other"
    /\ DOMAIN frames # {}

\* reads longer than CHUNK_SIZE, with a tail shorter than, equal to and longer
\* than META_SIZE
SplitReads ==
    {CHUNK_SIZE + 1, CHUNK_SIZE + META_SIZE - 1, CHUNK_SIZE + META_SIZE,
     2 * CHUNK_SIZE, 2 * CHUNK_SIZE + 3, 2 * CHUNK_SIZE + 37}

\* C18: a read of 1 .. META_SIZE - 1 bytes is dropped: from_bytes is not
\* called on it, nor on a tail that short of a read that is split, the cache
\* stays as it is and the loop goes back to recv
C18_Short ==
    /\ [](/\ BytesLen(bytes) < META_SIZE => decoded = NotCalled
          /\ \A n \in SplitReads :
                \A k \in 1 .. Len(Slices(n)) : Slices(n)[k] >= META_SIZE)
    /\ [][(/\ recvs' # recvs
           /\ last'.kind = "Ok"
           /\ BytesLen(last'.bytes) \in 1 .. META_SIZE - 1)
            => (/\ frames' = frames
                /\ order' = order
                /\ mutex' = mutex
                /\ pc' = "recv"
                /\ exit' = -1)]_vars

C18_Witness ==
    /\ last.kind = "Ok"
    /\ BytesLen(last.bytes) = META_SIZE - 1
    /\ pc = "recv"
    /\ DOMAIN frames # {}

\* C23: with payloads of at most CHUNK_SIZE - META_SIZE bytes no call panics:
\* add_packet finds the frame it inserts into, no stored frame is empty, and
\* every position of `order` that get_frame would read exists
C23_NoFail ==
    /\ ~panicked
    /\ \A f \in DOMAIN frames : frames[f] # <<>>
    /\ len(frames) # 0 => Scan(frames, order, 0).end # "panic"
    /\ len(frames) >= MAX_FRAMES => order # <<>>

\* get_frame ran on a full cache whose oldest entry of `order` has no frame
C23_Witness ==
    /\ op = "get_frame"
    /\ result.kind = "NoFrame"
    /\ len(frames) >= MAX_FRAMES
    /\ order[1] \notin DOMAIN frames

\* the compressed buffer of sent frame f, chunk by chunk
WholeBuffer(f) == [k \in 1 .. NumChunks(sent[f]) |-> Fragment(sent[f], f, k - 1).data]

\* C21: every buffer get_frame returns as Ready is the whole compressed buffer
\* of one sent frame
C21_WholeFrame ==
    (op = "get_frame" /\ result.kind = "Ok") =>
        \E f \in 1 .. Len(sent) : result.buffer = WholeBuffer(f)

\* C22: a frame that get_frame returns as Ready was not created before a
\* frame that an earlier get_frame returned as Ready
C22_CreationOrder ==
    [][(op' = "get_frame" /\ result'.kind = "Ok") =>
          \A r \in (DOMAIN frames) \ DOMAIN frames' : r \notin passed]_vars

====
